---------------------------- MODULE Spec2Model ----------------------------
(***************************************************************************)
(* Model of the two scripts of the Homebase repository:                    *)
(*   execution/source_executive_coach_leads.py  (lead sourcing pipeline)   *)
(*   execution/send_onboarding_email_gmail.py   (onboarding e-mail sender) *)
(*                                                                         *)
(* Strings are modelled as sequences of tokens: a URL is the sequence of   *)
(* its pieces (scheme, "://", network location, path, query), so that      *)
(* startswith, urlparse and lower() are computed on the pieces.            *)
(***************************************************************************)
EXTENDS Integers, Sequences, FiniteSets, TLC

VARIABLES
    \* ---- TextExtractor (one parser object and the events fed to it)
    parts,          \* TextExtractor.parts
    skip_depth,     \* TextExtractor._skip_depth
    open_script,    \* observer: script elements opened and not yet closed
    open_style,     \* observer: style elements opened and not yet closed
    leaked,         \* observer: a text event inside an open script/style was captured
    fed,            \* observer: number of events fed so far
    \* ---- fetch_url (one call)
    f_retries,      \* argument retries
    f_responses,    \* what the network answers to the 1st, 2nd, ... request
    f_out,          \* the call's outcome, NotCalled before the call
    \* ---- bing_search (one call)
    b_links,        \* parser.links of the results page
    b_max,          \* argument max_results
    b_out,          \* the returned list, NotCalled before the call
    \* ---- the lead sourcing script (main and build_candidates)
    script,         \* which of the two scripts this run executes
    limit,          \* args.limit
    creds_exist,    \* os.path.exists(args.credentials)
    pc,             \* where the run stands
    target,         \* index of the current search target
    seed,           \* index of the current search seed
    results,        \* links of the current results list not yet visited
    leads,          \* build_candidates' leads
    seen_domains,   \* build_candidates' seen_domains
    since_call,     \* observer: seconds slept since the last outbound request, -1 before the first
    unspaced,       \* observer: some request directly followed the previous one
    calls_at_limit, \* observer: a request was issued with len(leads) >= limit
    net_used,       \* observer: an outbound request has been made
    last_event,     \* observer: what the last step did
    last_text,      \* observer: text_extractor.text() of the page the last step fetched
    fetch_count,    \* observer: calls of fetch_url per lower-cased network location
    reported,       \* what main printed about the credentials file
    exit_code,      \* how main ended, "running" before
    \* ---- the onboarding e-mail script (sequential runs of main on one log)
    log_file,       \* the CSV send log at args.log_path
    clock,          \* the UTC wall clock, in hours
    runs,           \* number of runs of main so far
    last_run,       \* observer: arguments and outcome of the last run of main
    \* ---- should_skip_send (one call)
    g_file,         \* the log the call reads
    g_now,          \* datetime.now(timezone.utc) of the call, in hours
    g_window,       \* argument window_hours
    g_out,          \* the call's outcome, NotCalled before the call
    \* ---- guess_name (one call)
    n_title,        \* argument title
    n_h1,           \* argument h1
    n_out,          \* the returned name, NotCalled before the call
    \* ---- extract_evidence (one call)
    e_text,         \* argument text
    e_out           \* the returned snippet, NotCalled before the call

textVars  == <<parts, skip_depth, open_script, open_style, leaked, fed>>
fetchVars == <<f_retries, f_responses, f_out>>
bingVars  == <<b_links, b_max, b_out>>
leadVars  == <<script, limit, creds_exist, pc, target, seed, results, leads,
               seen_domains, since_call, unspaced, calls_at_limit, net_used,
               last_event, last_text, fetch_count, reported, exit_code>>
mailVars  == <<log_file, clock, runs, last_run>>
guardVars == <<g_file, g_now, g_window, g_out>>
nameVars  == <<n_title, n_h1, n_out>>
evidVars  == <<e_text, e_out>>
vars      == <<textVars, fetchVars, bingVars, leadVars, mailVars, guardVars,
               nameVars, evidVars>>

NotCalled == [status |-> "not_called"]

(***************************************************************************)
(* Generic helpers                                                         *)
(***************************************************************************)
SeqsUpTo(S, n) == UNION {[1..k -> S] : k \in 0..n}


(***************************************************************************)
(* TextExtractor  (source_executive_coach_leads.py, lines 148-170)         *)
(*                                                                         *)
(* A text chunk is the sequence of its tokens, " " standing for a run of   *)
(* whitespace; tags are the names HTMLParser hands to the handlers.        *)
(***************************************************************************)
MaxEvents == 5

SkipTags == {"script", "style"}

Tags == SkipTags \cup {"p"}

DataChunks == { <<"hello">>, <<" ">>, <<" ", "var", " ", "x", " ">> }

\* data.split(): the whitespace-free pieces, in order
Split(data) == SelectSeq(data, LAMBDA t : t # " ")

\* " ".join(self.parts), parts being lists of words already joined by " "
RECURSIVE JoinParts(_)
JoinParts(ps) ==
    IF ps = <<>> THEN <<>> ELSE Head(ps) \o JoinParts(Tail(ps))

\* a fresh TextExtractor()
NewExtractor == [parts |-> <<>>, skip_depth |-> 0]

\* TextExtractor.handle_starttag(tag, attrs)
TE_starttag(te, tag) ==
    IF tag \in SkipTags
    THEN [te EXCEPT !.skip_depth = te.skip_depth + 1]
    ELSE te

\* TextExtractor.handle_endtag(tag)
TE_endtag(te, tag) ==
    IF tag \in SkipTags /\ te.skip_depth > 0
    THEN [te EXCEPT !.skip_depth = te.skip_depth - 1]
    ELSE te

\* TextExtractor.handle_data(data)
TE_data(te, data) ==
    IF te.skip_depth # 0 THEN te
    ELSE LET cleaned == Split(data) IN
         IF cleaned # <<>>
         THEN [te EXCEPT !.parts = Append(te.parts, cleaned)]
         ELSE te

\* TextExtractor.text()
TE_text(te) == JoinParts(te.parts)

StartTag(tag) == [kind |-> "start", tag |-> tag, data |-> <<>>]

EndTag(tag)   == [kind |-> "end", tag |-> tag, data |-> <<>>]

Data(data)    == [kind |-> "data", tag |-> "", data |-> data]

\* HTMLParser.feed: the handlers called for the events from position i on
RECURSIVE TE_feed(_, _, _)
TE_feed(te, events, i) ==
    IF i > Len(events) THEN te
    ELSE LET e == events[i] IN
         TE_feed(IF e.kind = "start" THEN TE_starttag(te, e.tag)
                 ELSE IF e.kind = "end" THEN TE_endtag(te, e.tag)
                 ELSE TE_data(te, e.data),
                 events, i + 1)

InitText ==
    /\ parts = NewExtractor.parts
    /\ skip_depth = NewExtractor.skip_depth
    /\ open_script = 0
    /\ open_style = 0
    /\ leaked = FALSE
    /\ fed = 0

\* the parser object of the state
Extractor == [parts |-> parts, skip_depth |-> skip_depth]

handle_starttag(tag) ==
    /\ fed < MaxEvents
    /\ LET te == TE_starttag(Extractor, tag) IN
         /\ parts' = te.parts
         /\ skip_depth' = te.skip_depth
    /\ open_script' = IF tag = "script" THEN open_script + 1 ELSE open_script
    /\ open_style' = IF tag = "style" THEN open_style + 1 ELSE open_style
    /\ fed' = fed + 1
    /\ UNCHANGED leaked

handle_endtag(tag) ==
    /\ fed < MaxEvents
    /\ LET te == TE_endtag(Extractor, tag) IN
         /\ parts' = te.parts
         /\ skip_depth' = te.skip_depth
    /\ open_script' = IF tag = "script" /\ open_script > 0
                      THEN open_script - 1 ELSE open_script
    /\ open_style' = IF tag = "style" /\ open_style > 0
                     THEN open_style - 1 ELSE open_style
    /\ fed' = fed + 1
    /\ UNCHANGED leaked

handle_data(data) ==
    /\ fed < MaxEvents
    /\ LET te == TE_data(Extractor, data) IN
         /\ parts' = te.parts
         /\ skip_depth' = te.skip_depth
    /\ leaked' = (leaked \/ (parts' # parts /\ (open_script > 0 \/ open_style > 0)))
    /\ fed' = fed + 1
    /\ UNCHANGED <<open_script, open_style>>

FeedStartTag ==
    /\ \E tag \in Tags : handle_starttag(tag)
    /\ UNCHANGED <<fetchVars, bingVars, leadVars, mailVars, guardVars, nameVars, evidVars>>

FeedEndTag ==
    /\ \E tag \in Tags : handle_endtag(tag)
    /\ UNCHANGED <<fetchVars, bingVars, leadVars, mailVars, guardVars, nameVars, evidVars>>

FeedData ==
    /\ \E data \in DataChunks : handle_data(data)
    /\ UNCHANGED <<fetchVars, bingVars, leadVars, mailVars, guardVars, nameVars, evidVars>>

NextText ==
    \/ FeedStartTag
    \/ FeedEndTag
    \/ FeedData

(***************************************************************************)
(* fetch_url  (source_executive_coach_leads.py, lines 173-192)             *)
(*                                                                         *)
(* responses[i] is what the network answers to the i-th request of the     *)
(* call: a decoded body, or the exception urlopen/read/decode raises.      *)
(***************************************************************************)
MAX_RETRIES == 3

MaxRetriesArg == 3

FetchResponses ==
    { [ok |-> TRUE,  val |-> "html_1"],
      [ok |-> TRUE,  val |-> "html_2"],
      [ok |-> FALSE, val |-> "URLError"],
      [ok |-> FALSE, val |-> "HTTPError"] }

NoError == "None"

\* the for loop of fetch_url from iteration `attempt` on, and the final raise
RECURSIVE FetchLoop(_, _, _, _, _)
FetchLoop(responses, retries, attempt, last_error, events) ==
    IF attempt >= retries
    THEN [status   |-> "raised",
          val      |-> IF last_error # NoError THEN last_error
                       ELSE "Failed to fetch URL",
          attempts |-> attempt,
          events   |-> events]
    ELSE LET r == responses[attempt + 1] IN
         IF r.ok
         THEN [status   |-> "ok",
               val      |-> r.val,
               attempts |-> attempt + 1,
               events   |-> Append(events, "request")]
         ELSE FetchLoop(responses, retries, attempt + 1, r.val,
                        IF attempt < retries - 1
                        THEN events \o <<"request", "retry_delay">>
                        ELSE Append(events, "request"))

\* a loop over range(retries - 1): one attempt short
fetch_url_one_short(responses, retries) ==
    FetchLoop(responses, retries - 1, 0, NoError, <<>>)

fetch_url(responses, retries) ==
    FetchLoop(responses, retries, 0, NoError, <<>>)

InitFetch ==
    /\ f_retries \in 0..MaxRetriesArg
    /\ f_responses \in [1..MaxRetriesArg -> FetchResponses]
    /\ f_out = NotCalled

FetchIdle ==
    /\ f_retries = 0
    /\ f_responses = <<>>
    /\ f_out = NotCalled

CallFetchUrl ==
    /\ f_out = NotCalled
    /\ f_out' = fetch_url(f_responses, f_retries)
    /\ UNCHANGED <<f_retries, f_responses>>
    /\ UNCHANGED <<textVars, bingVars, leadVars, mailVars, guardVars, nameVars, evidVars>>

NextFetch == CallFetchUrl


(***************************************************************************)
(* URLs and hrefs as token sequences                                       *)
(***************************************************************************)
L_a       == <<"http", "://", "a.com", "/">>
L_A       == <<"https", "://", "A.com", "/about">>
L_b       == <<"https", "://", "b.com", "/coach">>
L_li      == <<"https", "://", "www.linkedin.com", "/in/jane">>
L_rel     == <<"/search", "?q=coach">>
L_httprel == <<"httpdocs/team.html">>
L_ck_a    == <<"https", "://", "www.bing.com", "/ck/a", "?u=", "a1", "b64(http://a.com/)">>
L_ck_rel  == <<"https", "://", "www.bing.com", "/ck/a", "?u=", "b64(/search?q=coach)">>
L_ck_bad  == <<"https", "://", "www.bing.com", "/ck/a", "?u=", "a1", "b64!">>
L_ck_nou  == <<"https", "://", "www.bing.com", "/ck/a">>

\* the first tokens whose characters begin with "http"
HttpPrefixed == {"http", "https", "httpdocs/team.html"}

\* str.startswith("http")
StartsWithHttp(s) == Len(s) > 0 /\ s[1] \in HttpPrefixed

\* "bing.com/ck/a" in link
ContainsBingCk(link) ==
    \E i \in 1..(Len(link) - 1) :
        link[i] \in {"www.bing.com", "bing.com"} /\ link[i + 1] = "/ck/a"

\* parse_qs(urlparse(link).query).get("u", [""])[0]
QueryU(link) ==
    IF \E i \in DOMAIN link : link[i] = "?u="
    THEN LET i == CHOOSE j \in DOMAIN link : link[j] = "?u="
         IN  SubSeq(link, i + 1, Len(link))
    ELSE <<>>

\* base64.urlsafe_b64decode(padded).decode("utf-8", errors="replace");
\* ok is FALSE where the decoder raises
B64Decode(encoded) ==
    IF encoded = <<"b64(http://a.com/)">> THEN [ok |-> TRUE, val |-> L_a]
    ELSE IF encoded = <<"b64(/search?q=coach)">> THEN [ok |-> TRUE, val |-> L_rel]
    ELSE [ok |-> FALSE, val |-> <<>>]

normalize_bing_link(link) ==
    IF ~ContainsBingCk(link) THEN link
    ELSE LET encoded == QueryU(link) IN
         IF encoded = <<>> THEN link
         ELSE LET stripped == IF encoded[1] = "a1" THEN Tail(encoded) ELSE encoded
                  decoded  == B64Decode(stripped)
              IN  IF decoded.ok /\ StartsWithHttp(decoded.val)
                  THEN decoded.val ELSE link

\* urlparse(link).netloc
Netloc(link) ==
    IF Len(link) >= 3 /\ link[2] = "://" THEN link[3] ELSE ""

(***************************************************************************)
(* BingResultParser and bing_search  (lines 128-146 and 229-249)           *)
(*                                                                         *)
(* A results page is the sequence of the tags the parser sees:             *)
(* <li class="b_algo">, </li>, and <a href=...> (href <<>> when absent).   *)
(***************************************************************************)
MaxPage == 4

MaxResultsArg == 2

LiAlgo == [tag |-> "li_b_algo", href |-> <<>>]

LiEnd  == [tag |-> "/li", href |-> <<>>]

Anchor(href) == [tag |-> "a", href |-> href]

PageHrefs == {L_a, L_b, L_rel, L_httprel, L_ck_a, L_ck_rel, L_ck_bad, L_ck_nou, <<>>}

PageTags == {LiAlgo, LiEnd} \cup {Anchor(h) : h \in PageHrefs}

\* BingResultParser.feed: parser.links after the tags from position i on
RECURSIVE ParseLinks(_, _, _, _)
ParseLinks(page, i, in_result, links) ==
    IF i > Len(page) THEN links
    ELSE LET e == page[i] IN
         IF e.tag = "li_b_algo" THEN ParseLinks(page, i + 1, TRUE, links)
         ELSE IF e.tag = "a"
              THEN ParseLinks(page, i + 1, in_result,
                              IF in_result /\ e.href # <<>>
                              THEN Append(links, e.href) ELSE links)
         ELSE ParseLinks(page, i + 1, FALSE, links)

BingResultParser(page) == ParseLinks(page, 1, FALSE, <<>>)

\* the for loop of bing_search over parser.links from position i on
RECURSIVE CollectResults(_, _, _, _, _)
CollectResults(links, max_results, i, res, seen) ==
    IF i > Len(links) THEN res
    ELSE LET normalized == normalize_bing_link(links[i]) IN
         IF ~StartsWithHttp(normalized)
         THEN CollectResults(links, max_results, i + 1, res, seen)
         ELSE IF normalized \in seen
         THEN CollectResults(links, max_results, i + 1, res, seen)
         ELSE IF Len(res) + 1 >= max_results
         THEN Append(res, normalized)
         ELSE CollectResults(links, max_results, i + 1,
                             Append(res, normalized),
                             seen \cup {normalized})

\* bing_search after the page has been fetched: parse, normalise, filter
bing_results(page, max_results) ==
    CollectResults(BingResultParser(page), max_results, 1, <<>>, {})

InitBing ==
    /\ b_links \in SeqsUpTo(PageTags, MaxPage)
    /\ b_max \in 1..MaxResultsArg
    /\ b_out = NotCalled

BingIdle ==
    /\ b_links = <<>>
    /\ b_max = 1
    /\ b_out = NotCalled

CallBingSearch ==
    /\ b_out = NotCalled
    /\ b_out' = [status |-> "returned", results |-> bing_results(b_links, b_max)]
    /\ UNCHANGED <<b_links, b_max>>
    /\ UNCHANGED <<textVars, fetchVars, leadVars, mailVars, guardVars, nameVars, evidVars>>

NextBing == CallBingSearch

(***************************************************************************)
(* Text predicates and field extractors  (lines 252-259, 303-311)          *)
(*                                                                         *)
(* A normalised text is the sequence of its words; a phrase is a sequence  *)
(* of words, and "phrase in text" is decided as on the characters: the     *)
(* first word of the phrase may end a longer word of the text, the last    *)
(* may begin one.                                                          *)
(***************************************************************************)
\* <<p, w>>: p is a proper substring / prefix / suffix of the word w
ProperSubstrings == {<<"coach", "coaching">>, <<"it", "with">>}

ProperPrefixes == {<<"coach", "coaching">>}

ProperSuffixes == {}

HasSubstring(w, p) == w = p \/ <<p, w>> \in ProperSubstrings

HasPrefix(w, p) == w = p \/ <<p, w>> \in ProperPrefixes

HasSuffix(w, p) == w = p \/ <<p, w>> \in ProperSuffixes

\* phrase in words
Contains(words, phrase) ==
    LET k == Len(phrase) IN
    \E i \in 1..(Len(words) - k + 1) :
        IF k = 1 THEN HasSubstring(words[i], phrase[1])
        ELSE /\ HasSuffix(words[i], phrase[1])
             /\ HasPrefix(words[i + k - 1], phrase[k])
             /\ \A j \in 2..(k - 1) : words[i + j - 1] = phrase[j]

\* str.lower() on the words and network locations of the model
LowerWord(w) ==
    CASE w = "A.com" -> "a.com"
      [] w = "Executive" -> "executive"
      [] w = "Leadership" -> "leadership"
      [] w = "Coach" -> "coach"
      [] OTHER -> w

LowerText(words) == [i \in DOMAIN words |-> LowerWord(words[i])]

EXCLUDE_KEYWORDS ==
    << <<"software">>, <<"engineering">>, <<"technical">>, <<"developer">>,
       <<"devops">>, <<"product", "manager">>, <<"cto">>, <<"cio">>, <<"it">> >>

contains_excluded_keywords(words) ==
    LET lower == LowerText(words) IN
    \E n \in DOMAIN EXCLUDE_KEYWORDS : Contains(lower, EXCLUDE_KEYWORDS[n])

\* the test for the trigger phrases on the text as written, without lower()
looks_like_executive_coach_cased(words) ==
    \/ Contains(words, <<"executive", "coach">>)
    \/ Contains(words, <<"executive", "coaching">>)
    \/ Contains(words, <<"leadership", "coach">>)

looks_like_executive_coach(words) ==
    LET lower == LowerText(words) IN
    \/ Contains(lower, <<"executive", "coach">>)
    \/ Contains(lower, <<"executive", "coaching">>)
    \/ Contains(lower, <<"leadership", "coach">>)

(***************************************************************************)
(* extract_evidence  (lines 291-300)                                       *)
(*                                                                         *)
(* The text is text_extractor.text(): words joined by single spaces.  The  *)
(* positions of str.find and of the slice are counted in characters, from  *)
(* 0; "Filler" stands for a run of 70 characters of other words.           *)
(***************************************************************************)
\* len(w)
WordLen(w) ==
    CASE w \in {"executive", "Executive"} -> 9
      [] w \in {"leadership", "Leadership"} -> 10
      [] w \in {"coach", "Coach"} -> 5
      [] w = "coaching" -> 8
      [] w = "Filler" -> 70
      [] OTHER -> 4

\* the position of the first character of word i
RECURSIVE Offset(_, _)
Offset(words, i) ==
    IF i <= 1 THEN 0 ELSE Offset(words, i - 1) + WordLen(words[i - 1]) + 1

\* len(text)
TextLen(words) ==
    IF words = <<>> THEN 0
    ELSE Offset(words, Len(words)) + WordLen(words[Len(words)])

\* the phrase (two words or more) occurs with its first word in word i
PhraseAt(words, phrase, i) ==
    LET k == Len(phrase) IN
    /\ i + k - 1 <= Len(words)
    /\ HasSuffix(words[i], phrase[1])
    /\ HasPrefix(words[i + k - 1], phrase[k])
    /\ \A j \in 2..(k - 1) : words[i + j - 1] = phrase[j]

\* lowered.find(phrase)
Find(words, phrase) ==
    IF \E i \in DOMAIN words : PhraseAt(words, phrase, i)
    THEN LET i == CHOOSE j \in DOMAIN words :
                      /\ PhraseAt(words, phrase, j)
                      /\ \A m \in 1..(j - 1) : ~PhraseAt(words, phrase, m)
         IN  Offset(words, i) + WordLen(words[i]) - WordLen(phrase[1])
    ELSE -1

\* the phrases in the order of the list of line 293
EVIDENCE_PHRASES ==
    << <<"executive", "coach">>, <<"executive", "coaching">>,
       <<"leadership", "coach">> >>

EVIDENCE_BEFORE == 60

EVIDENCE_AFTER == 120

Max(a, b) == IF a >= b THEN a ELSE b

Min(a, b) == IF a <= b THEN a ELSE b

\* " ".join(text[start:end].split()): the words of the slice, "<part>" for a
\* word the slice cuts
Slice(words, start, end) ==
    LET inside(i) == /\ Offset(words, i) < end
                     /\ Offset(words, i) + WordLen(words[i]) > start
        whole(i)  == /\ Offset(words, i) >= start
                     /\ Offset(words, i) + WordLen(words[i]) <= end
        kept      == SelectSeq([i \in DOMAIN words |-> i], inside)
    IN  [n \in DOMAIN kept |-> IF whole(kept[n]) THEN words[kept[n]] ELSE "<part>"]

NoSnippet == [start |-> 0, end |-> 0, snippet |-> <<>>]

\* the for loop of extract_evidence from phrase n on
RECURSIVE EvidenceLoop(_, _)
EvidenceLoop(words, n) ==
    IF n > Len(EVIDENCE_PHRASES) THEN NoSnippet
    ELSE LET idx == Find(LowerText(words), EVIDENCE_PHRASES[n]) IN
         IF idx # -1
         THEN LET start == Max(0, idx - EVIDENCE_BEFORE)
                  end   == Min(TextLen(words), idx + EVIDENCE_AFTER)
              IN  [start |-> start, end |-> end,
                   snippet |-> Slice(words, start, end)]
         ELSE EvidenceLoop(words, n + 1)

\* extract_evidence(text): the slice taken and its words
extract_evidence(words) == EvidenceLoop(words, 1)

SEPARATORS == <<"|", "-", "em-dash", ":">>

\* candidate.split(sep)[0]
BeforeFirst(candidate, sep) ==
    LET i == CHOOSE j \in DOMAIN candidate :
                 candidate[j] = sep /\ \A m \in 1..(j - 1) : candidate[m] # sep
    IN  SubSeq(candidate, 1, i - 1)

\* the for loop of guess_name from separator n on
RECURSIVE CutAtSeparator(_, _)
CutAtSeparator(candidate, n) ==
    IF n > Len(SEPARATORS) THEN candidate
    ELSE IF \E j \in DOMAIN candidate : candidate[j] = SEPARATORS[n]
         THEN BeforeFirst(candidate, SEPARATORS[n])
         ELSE CutAtSeparator(candidate, n + 1)

\* guess_name(title, h1); the result is the list of its words
guess_name(title, h1) ==
    LET candidate == IF h1 # <<>> THEN h1 ELSE title IN
    IF candidate = <<>> THEN <<>>
    ELSE Split(CutAtSeparator(candidate, 1))

(***************************************************************************)
(* The network as build_candidates sees it                                 *)
(***************************************************************************)
REQUEST_DELAY == 1

RETRY_DELAY == 2

NumTargets == 2

NumSeeds == 3

MaxLimit == 2

Fail == [ok |-> FALSE, val |-> "URLError"]

Ok(content) == [ok |-> TRUE, val |-> content]

\* the answers to the requests of one fetch_url call for `content`: the first
\* k requests fail (what follows a success is never asked for)
NetworkAnswers(content) ==
    { [i \in 1..MAX_RETRIES |-> IF i <= k THEN Fail ELSE Ok(content)] :
        k \in {0, 1, MAX_RETRIES} }

L_c == <<"https", "://", "c.com", "/">>

\* a results page with one result container holding the anchors
ResultsPage(hrefs) ==
    <<LiAlgo>> \o [i \in DOMAIN hrefs |-> Anchor(hrefs[i])] \o <<LiEnd>>

SearchPages ==
    { ResultsPage(<<L_a, L_A, L_b, L_c>>),
      ResultsPage(<<L_c, L_li, L_b>>),
      ResultsPage(<<L_httprel, L_ck_a>>),
      ResultsPage(<<>>) }

LinkedinSearchPages == {ResultsPage(<<L_b, L_li>>), ResultsPage(<<L_b>>)}

\* candidate pages: title, first heading, on-page profile link, body events
SitePages ==
    { [title    |-> <<"Jane", " ", "Doe", " ", "|", " ", "Coaching">>,
       h1       |-> <<>>,
       linkedin |-> <<>>,
       body     |-> <<Data(<<"Executive", " ", "coach">>)>>],
      [title    |-> <<>>,
       h1       |-> <<>>,
       linkedin |-> L_li,
       body     |-> <<StartTag("p"), Data(<<" ", "Leadership", " ", "coaching">>)>>],
      [title    |-> <<"Ops", "-", "Team">>,
       h1       |-> <<"Dev", ":", "Ops">>,
       linkedin |-> <<>>,
       body     |-> <<Data(<<"executive", " ", "coaching", " ", "devops">>)>>],
      [title    |-> <<"Shop">>,
       h1       |-> <<>>,
       linkedin |-> <<>>,
       body     |-> <<StartTag("script"), Data(<<"executive", " ", "coach">>),
                      EndTag("script"), Data(<<"hello">>)>>],
      [title    |-> <<"Ann", " ", "Lee">>,
       h1       |-> <<>>,
       linkedin |-> L_li,
       body     |-> <<Data(<<"Executive">>), Data(<<"Coach", " ", "with">>)>>] }

\* extract_linkedin(html_text): the match of the profile pattern, <<>> if none
extract_linkedin(html) == html.linkedin

\* bing_search(query, max_results): the delay, the fetch of the results page
\* and the links taken from it
bing_search(responses, max_results) ==
    LET f == fetch_url(responses, MAX_RETRIES) IN
    [status  |-> f.status,
     results |-> IF f.status = "ok" THEN bing_results(f.val, max_results) ELSE <<>>,
     events  |-> <<"request_delay">> \o f.events]

\* "linkedin.com" in domain
IsLinkedinDomain(domain) == domain \in {"www.linkedin.com", "linkedin.com"}

\* "linkedin.com/in" in link.lower()
IsLinkedinProfile(link) ==
    \E i \in 1..(Len(link) - 1) :
        IsLinkedinDomain(LowerWord(link[i])) /\ link[i + 1] \in {"/in/jane"}

\* the first element of links that is a profile link, <<>> if none
RECURSIVE FirstProfile(_, _)
FirstProfile(links, i) ==
    IF i > Len(links) THEN <<>>
    ELSE IF IsLinkedinProfile(links[i]) THEN links[i]
    ELSE FirstProfile(links, i + 1)

\* search_linkedin(name)
search_linkedin(name, responses) ==
    IF name = <<>> THEN [url |-> <<>>, events |-> <<>>]
    ELSE LET b == bing_search(responses, 5) IN
         [url    |-> IF b.status = "ok" THEN FirstProfile(b.results, 1) ELSE <<>>,
          events |-> b.events]

(***************************************************************************)
(* Observers of the outbound traffic                                       *)
(***************************************************************************)
\* the observers after the events of one call, from event i on
RECURSIVE Account(_, _, _)
Account(obs, events, i) ==
    IF i > Len(events) THEN obs
    ELSE LET e == events[i] IN
         Account(
             IF e = "request"
             THEN [since |-> 0, unspaced |-> obs.unspaced \/ obs.since = 0]
             ELSE IF obs.since = -1 THEN obs
             ELSE [obs EXCEPT !.since = obs.since +
                       (IF e = "retry_delay" THEN RETRY_DELAY ELSE REQUEST_DELAY)],
             events, i + 1)

Requests(events) == Len(SelectSeq(events, LAMBDA e : e = "request"))

\* the calls counted so far and one more for the network location d; counts
\* is a sequence of <<network location, number of calls>>
Counted(counts, d) ==
    IF \E i \in DOMAIN counts : counts[i][1] = d
    THEN [i \in DOMAIN counts |->
             IF counts[i][1] = d THEN <<d, counts[i][2] + 1>> ELSE counts[i]]
    ELSE Append(counts, <<d, 1>>)

(***************************************************************************)
(* build_candidates and main  (lines 329-397 and 464-513)                  *)
(*                                                                         *)
(* One step is one pass through the body of the inner for loop over the    *)
(* seeds (the search) or of the loop over the links (one link).  When the  *)
(* last link of a results list is done the run stands at the next          *)
(* (target, seed) pair.                                                    *)
(***************************************************************************)
\* the comparison with > in place of >=
limit_reached_late(ls, lim) == Len(ls) > lim

\* len(leads) >= limit
limit_reached(ls, lim) == Len(ls) >= lim

\* urlparse(link).netloc without lower()
link_domain_as_written(link) == Netloc(link)

\* urlparse(link).netloc.lower()
link_domain(link) == LowerWord(Netloc(link))

\* a seen set that takes the domain only when its page could be fetched
seen_after_success(seen, domain, f) ==
    IF f.status = "ok" THEN seen \cup {domain} ELSE seen

\* seen_domains.add(domain), line 357, before the fetch and whatever it gives
seen_after_fetch(seen, domain, f) == seen \cup {domain}

\* try/except around bing_search: an error skips the pair
search_flow(b) == IF b.status = "raised" THEN "continue" ELSE "iterate"

\* a fetch whose error is not caught
fetch_flow_uncaught(f) == IF f.status = "raised" THEN "raise" ELSE "proceed"

\* try/except around fetch_url: an error skips the link
fetch_flow(f) == IF f.status = "raised" THEN "continue" ELSE "proceed"

\* the events of the try block around fetch_url: the delay follows a
\* successful fetch only
fetch_events(f) ==
    IF f.status = "ok" THEN Append(f.events, "request_delay") ELSE f.events

\* where the loops stand after the pair (t, s) is done
NextPair(t, s) ==
    IF s < NumSeeds THEN [pc |-> "seed", target |-> t, seed |-> s + 1]
    ELSE IF t < NumTargets THEN [pc |-> "seed", target |-> t + 1, seed |-> 1]
    ELSE [pc |-> "returned", target |-> t, seed |-> s]

\* where the loops stand when `rest` is what remains of the results list
AfterLink(rest) ==
    IF rest # <<>> THEN [pc |-> "link", target |-> target, seed |-> seed]
    ELSE NextPair(target, seed)

Lead(name, link, linkedin_url) ==
    [name         |-> IF name # <<>> THEN name ELSE <<"Unknown">>,
     role         |-> "Executive Coach",
     website_url  |-> link,
     linkedin_url |-> linkedin_url]

InitLead ==
    /\ script = "lead"
    /\ limit \in 0..MaxLimit
    /\ creds_exist \in BOOLEAN
    /\ pc = "seed"
    /\ target = 1
    /\ seed = 1
    /\ results = <<>>
    /\ leads = <<>>
    /\ seen_domains = {}
    /\ since_call = -1
    /\ unspaced = FALSE
    /\ calls_at_limit = FALSE
    /\ net_used = FALSE
    /\ last_event = "start"
    /\ last_text = <<>>
    /\ fetch_count = <<>>
    /\ reported = "nothing"
    /\ exit_code = "running"

LeadIdle ==
    /\ script = "none"
    /\ limit = 0
    /\ creds_exist = FALSE
    /\ pc = "idle"
    /\ target = 1
    /\ seed = 1
    /\ results = <<>>
    /\ leads = <<>>
    /\ seen_domains = {}
    /\ since_call = -1
    /\ unspaced = FALSE
    /\ calls_at_limit = FALSE
    /\ net_used = FALSE
    /\ last_event = "start"
    /\ last_text = <<>>
    /\ fetch_count = <<>>
    /\ reported = "nothing"
    /\ exit_code = "running"

\* the observers after the events of one call made with `ls` accumulated
Observe(events, ls) ==
    LET obs == Account([since |-> since_call, unspaced |-> unspaced], events, 1) IN
    /\ since_call' = obs.since
    /\ unspaced' = obs.unspaced
    /\ calls_at_limit' = (calls_at_limit \/ (Requests(events) > 0 /\ Len(ls) >= limit))
    /\ net_used' = (net_used \/ Requests(events) > 0)

Goto(pos) ==
    /\ pc' = pos.pc
    /\ target' = pos.target
    /\ seed' = pos.seed

\* build_candidates, lines 339-347: the limit check and the search of one pair
SearchStep ==
    /\ script = "lead"
    /\ pc = "seed"
    /\ IF limit_reached(leads, limit)
       THEN /\ pc' = "returned"
            /\ last_event' = "limit_reached"
            /\ last_text' = <<>>
            /\ UNCHANGED <<target, seed, results, leads, seen_domains, since_call,
                           unspaced, calls_at_limit, net_used, fetch_count>>
       ELSE \E page \in SearchPages : \E responses \in NetworkAnswers(page) :
            LET b    == bing_search(responses, 10)
                flow == search_flow(b)
            IN  /\ Observe(b.events, leads)
                /\ CASE flow = "raise" ->
                          /\ pc' = "raised"
                          /\ last_event' = "search_failed"
                          /\ UNCHANGED <<target, seed, results>>
                     [] flow = "continue" ->
                          /\ Goto(NextPair(target, seed))
                          /\ last_event' = "search_failed"
                          /\ results' = <<>>
                     [] OTHER ->
                          /\ Goto(AfterLink(b.results))
                          /\ last_event' = "searched"
                          /\ results' = b.results
                /\ last_text' = <<>>
                /\ UNCHANGED <<leads, seen_domains, fetch_count>>
    /\ UNCHANGED <<script, limit, creds_exist, reported, exit_code>>

\* build_candidates, lines 348-396: one link of the results list
LinkStep ==
    /\ script = "lead"
    /\ pc = "link"
    /\ LET link   == Head(results)
           rest   == Tail(results)
           domain == link_domain(link)
       IN
       IF limit_reached(leads, limit)
       THEN /\ pc' = "returned"
            /\ last_event' = "limit_reached"
            /\ last_text' = <<>>
            /\ UNCHANGED <<target, seed, results, leads, seen_domains, since_call,
                           unspaced, calls_at_limit, net_used, fetch_count>>
       ELSE IF domain = "" \/ domain \in seen_domains \/ IsLinkedinDomain(domain)
       THEN /\ Goto(AfterLink(rest))
            /\ results' = rest
            /\ last_event' = IF domain = "" THEN "no_domain"
                             ELSE IF domain \in seen_domains THEN "domain_seen"
                             ELSE "linkedin_skipped"
            /\ last_text' = <<>>
            /\ UNCHANGED <<leads, seen_domains, since_call, unspaced,
                           calls_at_limit, net_used, fetch_count>>
       ELSE \E html \in SitePages : \E responses \in NetworkAnswers(html) :
            LET f     == fetch_url(responses, MAX_RETRIES)
                flow  == fetch_flow(f)
                words == TE_text(TE_feed(NewExtractor, html.body, 1))
                name  == guess_name(html.title, html.h1)
                found == extract_linkedin(html)
            IN  /\ seen_domains' = seen_after_fetch(seen_domains, domain, f)
                /\ fetch_count' = Counted(fetch_count, LowerWord(Netloc(link)))
                /\ last_text' = IF f.status = "ok" THEN words ELSE <<>>
                /\ CASE flow = "raise" ->
                          /\ pc' = "raised"
                          /\ last_event' = "fetch_failed"
                          /\ Observe(fetch_events(f), leads)
                          /\ UNCHANGED <<target, seed, results, leads>>
                     [] flow = "continue" ->
                          /\ Goto(AfterLink(rest))
                          /\ results' = rest
                          /\ last_event' = "fetch_failed"
                          /\ Observe(fetch_events(f), leads)
                          /\ UNCHANGED leads
                     [] OTHER ->
                          /\ Goto(AfterLink(rest))
                          /\ results' = rest
                          /\ IF ~looks_like_executive_coach(words)
                             THEN /\ last_event' = "not_a_coach"
                                  /\ Observe(fetch_events(f), leads)
                                  /\ UNCHANGED leads
                             ELSE IF contains_excluded_keywords(words)
                             THEN /\ last_event' = "excluded"
                                  /\ Observe(fetch_events(f), leads)
                                  /\ UNCHANGED leads
                             ELSE IF found # <<>>
                             THEN /\ last_event' = "lead_added"
                                  /\ Observe(fetch_events(f), leads)
                                  /\ leads' = Append(leads, Lead(name, link, found))
                             ELSE \E li_page \in LinkedinSearchPages :
                                  \E li_responses \in NetworkAnswers(li_page) :
                                  LET li == search_linkedin(name, li_responses) IN
                                  /\ last_event' = "lead_added"
                                  /\ Observe(fetch_events(f) \o li.events, leads)
                                  /\ leads' = Append(leads, Lead(name, link, li.url))
    /\ UNCHANGED <<script, limit, creds_exist, reported, exit_code>>

\* main, lines 491-513: what follows the return of build_candidates
LeadMainFinish ==
    /\ script = "lead"
    /\ pc = "returned"
    /\ pc' = "exited"
    /\ IF leads = <<>>
       THEN /\ exit_code' = "1"
            /\ UNCHANGED <<reported, net_used>>
       ELSE IF ~creds_exist
       THEN /\ reported' = "missing_credentials_sheet_skipped"
            /\ exit_code' = "0"
            /\ UNCHANGED net_used
       ELSE \E sheet \in {"created", "failed", "missing_dependencies"} :
            /\ reported' = IF sheet = "created" THEN "sheet_url" ELSE sheet
            /\ exit_code' = IF sheet = "missing_dependencies" THEN "SystemExit" ELSE "0"
            /\ net_used' = (net_used \/ sheet # "missing_dependencies")
    /\ UNCHANGED <<script, limit, creds_exist, target, seed, results, leads,
                   seen_domains, since_call, unspaced, calls_at_limit, last_event,
                   last_text, fetch_count>>

Search == SearchStep /\ UNCHANGED <<textVars, fetchVars, bingVars, mailVars, guardVars, nameVars, evidVars>>

VisitLink == LinkStep /\ UNCHANGED <<textVars, fetchVars, bingVars, mailVars, guardVars, nameVars, evidVars>>

FinishLeadMain == LeadMainFinish /\ UNCHANGED <<textVars, fetchVars, bingVars, mailVars, guardVars, nameVars, evidVars>>

(***************************************************************************)
(* send_onboarding_email_gmail.py: log_send, should_skip_send, main        *)
(*                                                                         *)
(* Times are whole hours.  A timestamp string is aware (with UTC offset),  *)
(* naive (without) or malformed; the log is the header line and the data   *)
(* rows csv.DictReader yields.                                             *)
(***************************************************************************)
MaxTime == 2

MaxRuns == 2

MaxGuardRows == 2

Times == 0..MaxTime

Windows == {0, 1}

\* datetime.isoformat() of the aware UTC time t
isoformat(t) == [kind |-> "aware", t |-> t]

\* datetime.fromisoformat(str); a naive result is read as UTC (lines 109-113)
fromisoformat(str) ==
    IF str.kind = "malformed" THEN [ok |-> FALSE, t |-> 0]
    ELSE [ok |-> TRUE, t |-> str.t]

BaseKey ==
    [recipient |-> "ann@x.org", subject |-> "Welcome", sender |-> "me@x.org",
     template_version |-> "default-v1"]

\* the base key and the keys that differ from it in exactly one field
SendKeys ==
    { BaseKey,
      [BaseKey EXCEPT !.recipient = "bob@x.org"],
      [BaseKey EXCEPT !.subject = "Hello"],
      [BaseKey EXCEPT !.sender = "you@x.org"],
      [BaseKey EXCEPT !.template_version = "v2"] }

Row(ts, key, message_id) ==
    [timestamp_utc    |-> ts,
     recipient        |-> key.recipient,
     subject          |-> key.subject,
     sender           |-> key.sender,
     message_id       |-> message_id,
     template_version |-> key.template_version]

NoFile == [exists |-> FALSE, header |-> FALSE, rows |-> <<>>]

\* a log_send that opens the log for writing in place of appending
log_send_truncating(file, key, message_id, now) ==
    [exists |-> TRUE,
     header |-> TRUE,
     rows   |-> <<Row(isoformat(now), key, message_id)>>]

\* log_send(log_path, recipient, subject, sender, message_id, template_version)
\* at time now
log_send(file, key, message_id, now) ==
    [exists |-> TRUE,
     header |-> IF file.exists THEN file.header ELSE TRUE,
     rows   |-> Append(file.rows, Row(isoformat(now), key, message_id))]

\* csv.DictReader(handle): the rows keyed by the header line; without the
\* header line no column is called timestamp_utc and row.get gives ""
DictRows(file) == IF file.header THEN file.rows ELSE <<>>

\* the comparison sent_at <= cutoff in place of sent_at < cutoff
too_old_inclusive(sent_at, cutoff) == sent_at <= cutoff

\* sent_at < cutoff
too_old(sent_at, cutoff) == sent_at < cutoff

\* the for loop of should_skip_send over the rows from row i on
RECURSIVE SkipLoop(_, _, _, _, _, _, _)
SkipLoop(rows, i, recipient, subject, sender, template_version, cutoff) ==
    IF i > Len(rows) THEN FALSE
    ELSE LET row     == rows[i]
             sent_at == fromisoformat(row.timestamp_utc)
         IN  IF ~sent_at.ok
             THEN SkipLoop(rows, i + 1, recipient, subject, sender,
                           template_version, cutoff)
             ELSE IF too_old(sent_at.t, cutoff)
             THEN SkipLoop(rows, i + 1, recipient, subject, sender,
                           template_version, cutoff)
             ELSE IF /\ row.recipient = recipient
                     /\ row.subject = subject
                     /\ row.sender = sender
                     /\ row.template_version = template_version
             THEN TRUE
             ELSE SkipLoop(rows, i + 1, recipient, subject, sender,
                           template_version, cutoff)

\* should_skip_send(log_path, recipient, subject, sender, template_version,
\* window_hours) called at time now
should_skip_send(file, recipient, subject, sender, template_version, window_hours, now) ==
    IF ~file.exists THEN FALSE
    ELSE SkipLoop(DictRows(file), 1, recipient, subject, sender,
                  template_version, now - window_hours)

\* a log an earlier use left behind: a row with a broken timestamp and a row
\* with a timestamp without offset
OldLog ==
    [exists |-> TRUE,
     header |-> TRUE,
     rows   |-> << Row([kind |-> "malformed", t |-> 0], BaseKey, "m0"),
                   Row([kind |-> "naive", t |-> 0], BaseKey, "m0") >>]

NoRun ==
    [key |-> BaseKey, now |-> 0, window_hours |-> 0, allow_duplicate |-> FALSE,
     credentials |-> FALSE, outcome |-> "none", net |-> FALSE,
     log_before |-> NoFile]

\* a main that never looks for the credentials file
credentials_unchecked(credentials) == FALSE

\* not os.path.exists(args.credentials)
credentials_missing(credentials) == ~credentials

InitMail ==
    /\ log_file \in {NoFile, OldLog}
    /\ clock = 0
    /\ runs = 0
    /\ last_run = NoRun

MailIdle ==
    /\ log_file = NoFile
    /\ clock = 0
    /\ runs = MaxRuns
    /\ last_run = NoRun

\* main(), lines 221-255, started at time now
EmailMain(key, window_hours, allow_duplicate, credentials, now) ==
    LET run(outcome, net) ==
            [key |-> key, now |-> now, window_hours |-> window_hours,
             allow_duplicate |-> allow_duplicate, credentials |-> credentials,
             outcome |-> outcome, net |-> net, log_before |-> log_file]
    IN
    IF credentials_missing(credentials)
    THEN /\ last_run' = run("missing_credentials", FALSE)
         /\ clock' = now
         /\ UNCHANGED log_file
    ELSE IF /\ ~allow_duplicate
            /\ should_skip_send(log_file, key.recipient, key.subject, key.sender,
                                key.template_version, window_hours, now)
    THEN /\ last_run' = run("skipped", FALSE)
         /\ clock' = now
         /\ UNCHANGED log_file
    ELSE \/ /\ last_run' = run("send_failed", TRUE)
            /\ clock' = now
            /\ UNCHANGED log_file
         \/ \E logged_at \in {t \in Times : t >= now /\ t <= now + 1} :
            /\ last_run' = run("sent", TRUE)
            /\ clock' = logged_at
            /\ log_file' = log_send(log_file, key, "m1", logged_at)

RunEmailMain ==
    /\ script = "none"
    /\ runs < MaxRuns
    /\ runs' = runs + 1
    /\ \E key \in SendKeys, window_hours \in Windows, allow_duplicate \in BOOLEAN,
          credentials \in BOOLEAN, now \in {t \in Times : t >= clock} :
          EmailMain(key, window_hours, allow_duplicate, credentials, now)
    /\ UNCHANGED <<textVars, fetchVars, bingVars, leadVars, guardVars, nameVars, evidVars>>

(***************************************************************************)
(* should_skip_send on any log                                             *)
(***************************************************************************)
GuardTimestamps ==
    {isoformat(t) : t \in Times}
        \cup {[kind |-> "naive", t |-> 0], [kind |-> "malformed", t |-> 0]}

GuardRows == {Row(ts, key, "m0") : ts \in GuardTimestamps, key \in SendKeys}

GuardLogs ==
    {NoFile} \cup
    {[exists |-> TRUE, header |-> TRUE, rows |-> rows] :
        rows \in SeqsUpTo(GuardRows, MaxGuardRows)}

InitGuard ==
    /\ g_file \in GuardLogs
    /\ g_now \in Times
    /\ g_window \in Windows
    /\ g_out = NotCalled

GuardIdle ==
    /\ g_file = NoFile
    /\ g_now = 0
    /\ g_window = 0
    /\ g_out = NotCalled

CallShouldSkipSend ==
    /\ g_out = NotCalled
    /\ g_out' = [status |-> "returned",
                 skip   |-> should_skip_send(g_file, BaseKey.recipient,
                                BaseKey.subject, BaseKey.sender,
                                BaseKey.template_version, g_window, g_now)]
    /\ UNCHANGED <<g_file, g_now, g_window>>
    /\ UNCHANGED <<textVars, fetchVars, bingVars, leadVars, mailVars, nameVars, evidVars>>

NextGuard == CallShouldSkipSend

(***************************************************************************)
(* Specifications                                                          *)
(***************************************************************************)
(***************************************************************************)
(* guess_name on any title and heading                                     *)
(***************************************************************************)
MaxNameLen == 3

MaxTitleLen == 1

NameTokens == {"Jane", " "} \cup {SEPARATORS[n] : n \in DOMAIN SEPARATORS}

InitName ==
    /\ n_title \in SeqsUpTo(NameTokens, MaxTitleLen)
    /\ n_h1 \in SeqsUpTo(NameTokens, MaxNameLen)
    /\ n_out = NotCalled

NameIdle ==
    /\ n_title = <<>>
    /\ n_h1 = <<>>
    /\ n_out = NotCalled

CallGuessName ==
    /\ n_out = NotCalled
    /\ n_out' = [status |-> "returned", name |-> guess_name(n_title, n_h1)]
    /\ UNCHANGED <<n_title, n_h1>>
    /\ UNCHANGED <<textVars, fetchVars, bingVars, leadVars, mailVars, guardVars,
                   evidVars>>

NextName == CallGuessName

MaxWords == 5

EvidenceWords == {"Executive", "leadership", "coach", "coaching", "Filler"}

InitEvidence ==
    /\ e_text \in SeqsUpTo(EvidenceWords, MaxWords)
    /\ e_out = NotCalled

EvidenceIdle ==
    /\ e_text = <<>>
    /\ e_out = NotCalled

CallExtractEvidence ==
    /\ e_out = NotCalled
    /\ e_out' = [status |-> "returned", evidence |-> extract_evidence(e_text)]
    /\ UNCHANGED e_text
    /\ UNCHANGED <<textVars, fetchVars, bingVars, leadVars, mailVars, guardVars,
                   nameVars>>

NextEvidence == CallExtractEvidence

InitEvidenceSpec ==
    InitText /\ FetchIdle /\ BingIdle /\ LeadIdle /\ MailIdle /\ GuardIdle
    /\ NameIdle /\ InitEvidence

SpecEvidence == InitEvidenceSpec /\ [][NextEvidence]_vars

InitNameSpec ==
    InitText /\ FetchIdle /\ BingIdle /\ LeadIdle /\ MailIdle /\ GuardIdle
    /\ InitName /\ EvidenceIdle

SpecName == InitNameSpec /\ [][NextName]_vars

InitTextSpec ==
    InitText /\ FetchIdle /\ BingIdle /\ LeadIdle /\ MailIdle /\ GuardIdle
    /\ NameIdle /\ EvidenceIdle

SpecText == InitTextSpec /\ [][NextText]_vars

InitFetchSpec ==
    InitText /\ InitFetch /\ BingIdle /\ LeadIdle /\ MailIdle /\ GuardIdle
    /\ NameIdle /\ EvidenceIdle

SpecFetch == InitFetchSpec /\ [][NextFetch]_vars

InitBingSpec ==
    InitText /\ FetchIdle /\ InitBing /\ LeadIdle /\ MailIdle /\ GuardIdle
    /\ NameIdle /\ EvidenceIdle

SpecBing == InitBingSpec /\ [][NextBing]_vars

InitGuardSpec ==
    InitText /\ FetchIdle /\ BingIdle /\ LeadIdle /\ MailIdle /\ InitGuard
    /\ NameIdle /\ EvidenceIdle

SpecGuard == InitGuardSpec /\ [][NextGuard]_vars

\* one run of the lead sourcing script, or a sequence of runs of the e-mail script
Init ==
    /\ InitText /\ FetchIdle /\ BingIdle /\ GuardIdle
    /\ NameIdle /\ EvidenceIdle
    /\ \/ InitLead /\ MailIdle
       \/ InitMail /\ LeadIdle

Next ==
    \/ Search
    \/ VisitLink
    \/ FinishLeadMain
    \/ RunEmailMain

Spec == Init /\ [][Next]_vars

(***************************************************************************)
(* Properties of fetch_url                                                 *)
(***************************************************************************)
\* the requests of the call among 1..n that the network answers successfully
OkAttempts(n) == {i \in 1..n : f_responses[i].ok}

Least(S) == CHOOSE i \in S : \A j \in S : i <= j

\* C8: fetch_url with retries = n >= 1 makes at most n requests, returns the
\* body of the first successful one without asking again, waits the retry
\* delay between consecutive requests and nowhere else, and raises the error
\* of the n-th request when all n fail.
C8_FetchUrlBoundedRetry ==
    (f_out # NotCalled /\ f_retries >= 1) =>
        LET n == f_retries
            k == f_out.attempts
        IN  /\ k >= 1 /\ k <= n
            /\ OkAttempts(n) # {} =>
                   /\ f_out.status = "ok"
                   /\ k = Least(OkAttempts(n))
                   /\ f_out.val = f_responses[k].val
            /\ OkAttempts(n) = {} =>
                   /\ f_out.status = "raised"
                   /\ k = n
                   /\ f_out.val = f_responses[n].val
            /\ Len(f_out.events) = 2 * k - 1
            /\ \A i \in 1..(2 * k - 1) :
                   f_out.events[i] = IF i % 2 = 1 THEN "request" ELSE "retry_delay"

\* all three requests of a call fail, with different errors first and last
C8_Witness_AllFail ==
    /\ f_out # NotCalled
    /\ f_retries = MAX_RETRIES
    /\ f_out.status = "raised"
    /\ f_responses[1].val # f_responses[MAX_RETRIES].val

(***************************************************************************)
(* Properties of bing_search                                               *)
(***************************************************************************)
\* an absolute URL of scheme http or https
IsAbsoluteHttpUrl(s) ==
    Len(s) >= 3 /\ s[1] \in {"http", "https"} /\ s[2] = "://" /\ s[3] # ""

\* the hrefs of the page's anchors, in page order
AnchorHrefs(page) == SelectSeq(page, LAMBDA e : e.tag = "a")

\* res lists the destinations of anchors of the page in page order
InPageOrder(res, page) ==
    LET hrefs == AnchorHrefs(page) IN
    \E f \in [1..Len(res) -> 1..Len(hrefs)] :
        /\ \A i, j \in 1..Len(res) : i < j => f[i] < f[j]
        /\ \A i \in 1..Len(res) :
               res[i] = normalize_bing_link(hrefs[f[i]].href)

\* C9: for every res page and every max_results >= 1 the list returned by
\* bing_search has at most max_results entries, holds no URL twice, holds only
\* absolute http:// or https:// URLs, and follows the order of the page.
C9_ResultsCappedUniqueAbsolute ==
    (b_out # NotCalled /\ b_max >= 1) =>
        LET res == b_out.results IN
        /\ Len(res) <= b_max
        /\ \A i, j \in 1..Len(res) : i # j => res[i] # res[j]
        /\ \A i \in 1..Len(res) : IsAbsoluteHttpUrl(res[i])
        /\ InPageOrder(res, b_links)

SourceDomain(lead) == LowerWord(Netloc(lead.website_url))

\* C1: the number of accumulated leads never exceeds limit, and no search
\* request or page fetch is issued once the count has reached limit.
C1_LimitRespected ==
    script = "lead" => (Len(leads) <= limit /\ ~calls_at_limit)

\* the second lead reaches limit 2 and build_candidates returns with a link of
\* a domain it never fetched still in the results list
C1_Witness_StopsBeforeThird ==
    /\ script = "lead"
    /\ pc = "returned"
    /\ limit = 2
    /\ Len(leads) = 2
    /\ last_event = "limit_reached"
    /\ results # <<>>
    /\ SourceDomain([website_url |-> Head(results)]) \notin seen_domains \cup {""}

\* C2: no two accumulated leads share a source domain, and the domain of
\* every lead stays in the set of seen domains for the rest of the run.
C2_UniqueDomains ==
    /\ \A i, j \in DOMAIN leads :
           i # j => SourceDomain(leads[i]) # SourceDomain(leads[j])
    /\ \A i \in DOMAIN leads : SourceDomain(leads[i]) \in seen_domains

\* in the second target, with a lead accumulated and room for another, a link
\* of a domain seen earlier in the run is skipped
C2_Witness_SeenAcrossTargets ==
    /\ script = "lead"
    /\ pc = "link"
    /\ target = 2
    /\ Len(leads) = 1
    /\ limit > Len(leads)
    /\ last_event = "domain_seen"

\* C5: a failed page fetch only skips its link and a failed search only skips
\* its (target, seed) pair: the leads accumulated so far stay as they are, the
\* run goes on with the next link or pair, and build_candidates never raises.
C5_FailuresSkipOnly ==
    [][ (pc \in {"seed", "link"} /\ last_event' \in {"search_failed", "fetch_failed"})
        => /\ leads' = leads
           /\ pc' \in {"seed", "link", "returned"}
           /\ pc = "link" => results' = Tail(results)
           /\ pc = "seed" => /\ results' = <<>>
                             /\ (pc' = "returned" \/ <<target', seed'>> # <<target, seed>>)
      ]_vars

\* a page fetch fails after a lead was accumulated and the run stands at the
\* next link with the lead kept
C5_Witness_FetchFailedLeadKept ==
    /\ script = "lead"
    /\ pc = "link"
    /\ last_event = "fetch_failed"
    /\ Len(leads) = 1

\* C6: every outbound request of a build_candidates run is separated from
\* the request before it by a delay.
C6_EveryCallSpaced == ~unspaced

(***************************************************************************)
(* Properties of the onboarding e-mail script                              *)
(***************************************************************************)
\* some row of the log carries the four fields of key and a well-formed
\* timestamp at most window hours before now
RecentMatch(file, key, now, window) ==
    /\ file.exists
    /\ \E i \in DOMAIN file.rows :
           LET row == file.rows[i] IN
           /\ row.recipient = key.recipient
           /\ row.subject = key.subject
           /\ row.sender = key.sender
           /\ row.template_version = key.template_version
           /\ row.timestamp_utc.kind # "malformed"
           /\ now - row.timestamp_utc.t <= window

\* C3: a run without --allow-duplicate whose recipient, subject, sender and
\* template version equal those of a logged send at most the duplicate window
\* old sends nothing and leaves the log as it was.
C3_NoDuplicateSend ==
    ( /\ last_run.outcome # "none"
      /\ last_run.credentials
      /\ ~last_run.allow_duplicate
      /\ RecentMatch(last_run.log_before, last_run.key, last_run.now,
                     last_run.window_hours) )
    => /\ last_run.outcome = "skipped"
       /\ ~last_run.net
       /\ log_file = last_run.log_before

\* the second run finds the row the first run logged and skips the send
C3_Witness_SecondRunSkipped ==
    /\ runs = 2
    /\ last_run.outcome = "skipped"
    /\ last_run.log_before.rows # <<>>
    /\ last_run.log_before.rows[Len(last_run.log_before.rows)].message_id = "m1"

\* C4: should_skip_send returns true exactly when some row of the log matches
\* the four fields and has a well-formed timestamp t with
\* now - window <= t <= now; it never raises, and without a log it is false.
C4_SkipIffRowInWindow ==
    g_out # NotCalled =>
        /\ g_out.status = "returned"
        /\ g_out.skip <=>
              /\ g_file.exists
              /\ \E i \in DOMAIN g_file.rows :
                     LET row == g_file.rows[i] IN
                     /\ row.recipient = BaseKey.recipient
                     /\ row.subject = BaseKey.subject
                     /\ row.sender = BaseKey.sender
                     /\ row.template_version = BaseKey.template_version
                     /\ row.timestamp_utc.kind # "malformed"
                     /\ g_now - g_window <= row.timestamp_utc.t
                     /\ row.timestamp_utc.t <= g_now

(***************************************************************************)
(* Missing credentials file, both scripts                                  *)
(***************************************************************************)
\* C7 as stated: in both scripts a run whose credentials file is absent makes
\* no outbound request and ends as a fatal, reported failure.
C7_MissingCredentialsFatalBeforeNetwork ==
    /\ (last_run.outcome # "none" /\ ~last_run.credentials) =>
           (last_run.outcome = "missing_credentials" /\ ~last_run.net)
    /\ (script = "lead" /\ ~creds_exist) =>
           /\ ~net_used
           /\ pc = "exited" =>
                  (exit_code \notin {"0", "running"} /\ reported # "nothing")

\* C7 amended: the e-mail script exits with the missing-credentials error
\* before any request and with the log untouched; the lead script has made
\* its requests by then and ends 0 with the sheet skipped and the absence
\* reported (1 without report when there are no leads).
C7_MissingCredentialsPerScript ==
    /\ (last_run.outcome # "none" /\ ~last_run.credentials) =>
           /\ last_run.outcome = "missing_credentials"
           /\ ~last_run.net
           /\ log_file = last_run.log_before
    /\ (script = "lead" /\ ~creds_exist /\ pc = "exited") =>
           IF leads = <<>>
           THEN exit_code = "1" /\ reported = "nothing"
           ELSE exit_code = "0" /\ reported = "missing_credentials_sheet_skipped"

\* the lead script ends 0 without credentials file after using the network
C7_Witness_LeadRunWithoutCredentials ==
    /\ script = "lead"
    /\ ~creds_exist
    /\ pc = "exited"
    /\ net_used
    /\ exit_code = "0"
    /\ reported = "missing_credentials_sheet_skipped"


(***************************************************************************)
(* The qualification filter                                                *)
(***************************************************************************)
TriggerPhrases ==
    { <<"executive", "coach">>, <<"executive", "coaching">>,
      <<"leadership", "coach">> }

\* the text holds a trigger phrase and no exclusion keyword, letter case aside
Qualifies(words) ==
    /\ \E p \in TriggerPhrases : Contains(LowerText(words), p)
    /\ \A n \in DOMAIN EXCLUDE_KEYWORDS :
           ~Contains(LowerText(words), EXCLUDE_KEYWORDS[n])

\* C12: a fetched page becomes a lead exactly when its extracted text holds,
\* as a substring and whatever the letter case, a trigger phrase and no
\* exclusion keyword; "executive coaching" alone qualifies, "executive coach"
\* with "devops" does not.
C12_LeadIffTextQualifies ==
    /\ last_event \in {"lead_added", "not_a_coach", "excluded"} =>
           (last_event = "lead_added" <=> Qualifies(last_text))
    /\ last_event = "lead_added" =>
           /\ leads # <<>>
           /\ looks_like_executive_coach(last_text)
           /\ ~contains_excluded_keywords(last_text)
    /\ looks_like_executive_coach(<<"executive", "coaching">>)
    /\ ~contains_excluded_keywords(<<"executive", "coaching">>)
    /\ looks_like_executive_coach(<<"executive", "coach", "devops">>)
    /\ contains_excluded_keywords(<<"executive", "coach", "devops">>)

\* a page with a trigger phrase in capitals is turned down for the keyword
\* "it" inside the word "with"
C12_Witness_ExcludedBySubstring ==
    /\ last_event = "excluded"
    /\ last_text = <<"Executive", "Coach", "with">>

(***************************************************************************)
(* The send log                                                            *)
(***************************************************************************)
\* C11: a run of the e-mail script that sent its message leaves every row the
\* log had in place, adds the header only when the log did not exist, and
\* appends exactly one row, the one of this send; every other run (missing
\* credentials, skipped, failed send) leaves the log as it was.
C11_LogAppendOnly ==
    last_run.outcome # "none" =>
        LET old == last_run.log_before IN
        IF last_run.outcome = "sent"
        THEN /\ log_file.exists
             /\ Len(log_file.rows) = Len(old.rows) + 1
             /\ SubSeq(log_file.rows, 1, Len(old.rows)) = old.rows
             /\ log_file.header = (IF old.exists THEN old.header ELSE TRUE)
             /\ log_file.rows[Len(log_file.rows)] =
                    Row(isoformat(clock), last_run.key, "m1")
        ELSE log_file = old

\* a message is sent and logged behind the rows of an existing log
C11_Witness_AppendedToExistingLog ==
    /\ last_run.outcome = "sent"
    /\ last_run.log_before.exists
    /\ Len(last_run.log_before.rows) >= 2
    /\ Len(log_file.rows) = Len(last_run.log_before.rows) + 1


(***************************************************************************)
(* guess_name                                                              *)
(***************************************************************************)
IsSeparator(t) == \E n \in DOMAIN SEPARATORS : SEPARATORS[n] = t

\* s up to, and without, the first token of it that is a separator
UpToFirstSeparator(s) ==
    IF \E j \in DOMAIN s : IsSeparator(s[j])
    THEN LET j == CHOOSE k \in DOMAIN s :
                      IsSeparator(s[k]) /\ \A m \in 1..(k - 1) : ~IsSeparator(s[m])
         IN  SubSeq(s, 1, j - 1)
    ELSE s

\* C13: guess_name returns the heading, or the title when the heading is
\* empty, cut at the first occurrence in it of any of the separators and
\* with the whitespace trimmed; the result holds no separator, and is empty
\* when both are empty.
C13_NameCutAtFirstSeparator ==
    n_out # NotCalled =>
        LET chosen == IF n_h1 # <<>> THEN n_h1 ELSE n_title IN
        /\ n_out.name = Split(UpToFirstSeparator(chosen))
        /\ \A i \in DOMAIN n_out.name : ~IsSeparator(n_out.name[i])
        /\ (n_h1 = <<>> /\ n_title = <<>>) => n_out.name = <<>>


(***************************************************************************)
(* extract_evidence                                                        *)
(***************************************************************************)
\* the positions at which some trigger phrase occurs first in the text
TriggerHits(words) ==
    {Find(LowerText(words), p) : p \in TriggerPhrases} \ {-1}

\* C14: extract_evidence returns the empty string exactly when the text holds
\* no trigger phrase, letter case aside; otherwise the slice it returns lies
\* around the leftmost occurrence in the text of any trigger phrase, holds
\* that occurrence whole, and is in the letter case of the text.
C14_EvidenceAroundLeftmostPhrase ==
    e_out # NotCalled =>
        LET ev   == e_out.evidence
            hits == TriggerHits(e_text)
        IN  /\ (ev.snippet = <<>>) <=> (hits = {})
            /\ hits # {} =>
                  LET m == Least(hits) IN
                  /\ ev.start <= m
                  /\ \E p \in TriggerPhrases :
                         /\ Find(LowerText(e_text), p) = m
                         /\ m + WordLen(p[1]) + 1 + WordLen(p[2]) <= ev.end
                  /\ \E p \in TriggerPhrases : Contains(LowerText(ev.snippet), p)
                  /\ \A i \in DOMAIN ev.snippet :
                         ev.snippet[i] = "<part>" \/
                         \E j \in DOMAIN e_text : ev.snippet[i] = e_text[j]


(***************************************************************************)
(* Fetches per domain                                                      *)
(***************************************************************************)
\* C15: in one run of build_candidates fetch_url is called at most once per
\* domain, every domain it was called for is in the seen set whatever the
\* fetch gave, and no domain containing linkedin.com is fetched or is the
\* website of a lead.
C15_EachDomainFetchedOnce ==
    /\ \A i \in DOMAIN fetch_count :
           /\ fetch_count[i][2] <= 1
           /\ fetch_count[i][1] \in seen_domains
           /\ ~IsLinkedinDomain(fetch_count[i][1])
    /\ \A i \in DOMAIN leads :
           /\ ~IsLinkedinDomain(SourceDomain(leads[i]))
           /\ \E j \in DOMAIN fetch_count : fetch_count[j][1] = SourceDomain(leads[i])

\* with no lead accumulated, a link of a domain fetched earlier in the run
\* (the fetch failed or the page did not qualify) is passed over
C15_Witness_FailedDomainNotRefetched ==
    /\ script = "lead"
    /\ last_event = "domain_seen"
    /\ leads = <<>>
    /\ fetch_count # <<>>
    /\ limit > 0

=============================================================================
